---- MODULE Spec2Model ----
(***************************************************************************)
(* Ledger consistency engine of the YNAB-like budget tracker: the          *)
(* transactions handler (create / patch / remove), the categories handler  *)
(* (assign) and the budget engine (assignMoney), over the rows they read   *)
(* and write: accounts, budget months, categories and transactions.        *)
(*                                                                         *)
(* Every handler runs its reads and writes inside prisma.$transaction:     *)
(* a callback that returns commits what it wrote, a callback that throws   *)
(* rolls everything back.  Each action below is one whole handler call.    *)
(***************************************************************************)
EXTENDS Integers, FiniteSets, Sequences, TLC

\* ---------------------------------------------------------------- bounds
\* Transaction rows ever created in one behaviour (ids t1..tMaxTx).
MaxTx == 2
\* Handler calls in one behaviour.
MaxOps == 3
\* Balance every account row starts with.
OpeningBalance == 3
\* availableToBudget every budget month row starts with.
InitAvailable == 2

\* ------------------------------------------------------------ the rows
Users == {"u1", "u2"}
AccountIds == {"a1", "a2", "a3"}
\* An account id that names no row.
NoAccount == "a0"
AccountInputs == AccountIds \cup {NoAccount}
AccountOwner == [a \in AccountIds |-> IF a = "a3" THEN "u2" ELSE "u1"]

Months == {"2026-01", "2026-02"}
BudgetIds == {"b1", "b2"}
BudgetOwner == [b \in BudgetIds |-> IF b = "b1" THEN "u1" ELSE "u2"]
BudgetMonthOf == [b \in BudgetIds |-> "2026-01"]

CategoryIds == {"c1", "c2", "c3"}
CategoryBudget == [c \in CategoryIds |-> IF c = "c3" THEN "b2" ELSE "b1"]
\* categoryId: null
None == "null"
CategoryInputs == CategoryIds \cup {None}

\* Amounts a request may carry (decimalAmountSchema accepts any finite number).
Amounts == {-1, 1, 2}
\* Amounts an assign request may carry, before assignSchema is applied.
AssignAmounts == {-1, 0, 1, 2}
TxIds == 1..MaxTx
\* Keys a patch payload may set among the fields the balances derive from
\* (patchSchema = createSchema.partial()); date, payee, memo and cleared are
\* merged the same way and feed no balance, so rows do not carry them.
PatchKeys == {"accountId", "categoryId", "amount"}

VARIABLES
  accounts,      \* account rows:      id -> [userId, balance]
  budgets,       \* budgetMonth rows:  id -> [userId, month, availableToBudget]
  categories,    \* category rows:     id -> [budgetMonthId, assigned, spent]
  transactions,  \* transaction rows:  id -> [accountId, categoryId, amount]
  nextId,        \* id the next created transaction row gets
  ops,           \* handler calls so far
  result,        \* the last call: the handler, the status and the error it answered
  calls          \* per request in flight: where its handler stands, what it has
                 \* read and the writes of its open database transaction

vars == <<accounts, budgets, categories, transactions, nextId, ops, result, calls>>

NoResult == [op |-> "none", status |-> 0, error |-> ""]

\* The requests the server may be handling at once (SpecRace); in the other
\* specifications a handler call runs from its first statement to its commit
\* in one step and no request is ever in flight.
Procs == {"p1", "p2"}
NoRow == [accountId |-> "a0", categoryId |-> "null", amount |-> 0]
Idle ==
  [pc |-> "idle", op |-> "none", userId |-> "u1", id |-> 0,
   existing |-> NoRow, next |-> NoRow, budgetId |-> "b0", pool |-> 0,
   bal |-> <<>>, cat |-> <<>>, avail |-> <<>>, rows |-> <<>>]
NoCalls == [p \in Procs |-> Idle]

Init ==
  /\ accounts = [a \in AccountIds |-> [userId |-> AccountOwner[a], balance |-> OpeningBalance]]
  /\ budgets = [b \in BudgetIds |->
                  [userId |-> BudgetOwner[b], month |-> BudgetMonthOf[b],
                   availableToBudget |-> InitAvailable]]
  /\ categories = [c \in CategoryIds |->
                     [budgetMonthId |-> CategoryBudget[c], assigned |-> 0, spent |-> 0]]
  /\ transactions = [t \in {} |-> 0]
  /\ nextId = 1
  /\ ops = 0
  /\ result = NoResult
  /\ calls = NoCalls

\* ------------------------------------------------------- error mapping
\* server.js error middleware: the status a thrown Error is answered with.
\* (PrismaRecordNotFound: what Prisma throws when the row of an update or a
\* delete is gone; its message contains 'not found'.)
PrismaRecordNotFound ==
  "An operation failed because it depends on one or more records that were required but not found"
NotFoundMessages == {"Category not found", PrismaRecordNotFound}
ExceedsMessages == {"Spending exceeds available category funds"}
ErrorStatus(message) ==
  IF message = "ZodError" THEN 400
  ELSE IF message \in NotFoundMessages THEN 404
  ELSE IF message \in ExceedsMessages THEN 422
  ELSE 500

\* The record a call leaves in result.
Outcome(op, status, error) == [op |-> op, status |-> status, error |-> error]

\* ---------------------------------------------------- budget engine
\* assignMoney returning the pool it was given, not the pool less the amount.
assignMoneyKeepsPool(input) ==
  IF input.assigned < 0
    THEN [error |-> "Assigned amount must be >= 0", assigned |-> 0, availableToBudget |-> 0]
  ELSE IF input.assigned > input.availableToBudget
    THEN [error |-> "Insufficient available funds", assigned |-> 0, availableToBudget |-> 0]
  ELSE [error |-> "", assigned |-> input.assigned,
        availableToBudget |-> input.availableToBudget]

\* assignMoney without the comparison against availableToBudget.
assignMoneyNoFundsCheck(input) ==
  IF input.assigned < 0
    THEN [error |-> "Assigned amount must be >= 0", assigned |-> 0, availableToBudget |-> 0]
  ELSE [error |-> "", assigned |-> input.assigned,
        availableToBudget |-> input.availableToBudget - input.assigned]

\* assignMoney accepting one more than the pool holds.
assignMoneyAllowsOverdraw(input) ==
  IF input.assigned < 0
    THEN [error |-> "Assigned amount must be >= 0", assigned |-> 0, availableToBudget |-> 0]
  ELSE IF input.assigned > input.availableToBudget + 1
    THEN [error |-> "Insufficient available funds", assigned |-> 0, availableToBudget |-> 0]
  ELSE [error |-> "", assigned |-> input.assigned,
        availableToBudget |-> input.availableToBudget - input.assigned]

\* assignMoney(input): the thrown message in error, "" when it returns.
assignMoney(input) ==
  IF input.assigned < 0
    THEN [error |-> "Assigned amount must be >= 0", assigned |-> 0, availableToBudget |-> 0]
  ELSE IF input.assigned > input.availableToBudget
    THEN [error |-> "Insufficient available funds", assigned |-> 0, availableToBudget |-> 0]
  ELSE [error |-> "", assigned |-> input.assigned,
        availableToBudget |-> input.availableToBudget - input.assigned]

\* assignSchema: amount: z.number().nonnegative()
assignSchema(amount) == amount >= 0

\* ------------------------------------------------ transactions.js helpers
spendingAmount(categoryId, amount) ==
  IF categoryId # None /\ amount > 0 THEN amount ELSE 0

\* tx.category.findFirst({ where: { id, budgetMonth: { userId } } }) finds a row.
findCategoryOfUser(cats, categoryId, userId) ==
  /\ categoryId \in DOMAIN cats
  /\ budgets[cats[categoryId].budgetMonthId].userId = userId

\* ensureCategoryAvailability comparing with >= where the code has >.
ensureCategoryAvailabilityOffByOne(cats, userId, categoryId, spendAmount, previousSpend) ==
  IF categoryId = None \/ spendAmount <= 0 THEN ""
  ELSE IF ~findCategoryOfUser(cats, categoryId, userId) THEN "Category not found"
  ELSE LET available == cats[categoryId].assigned - (cats[categoryId].spent - previousSpend)
       IN IF spendAmount > available + 1
            THEN "Spending exceeds available category funds"
            ELSE ""

\* ensureCategoryAvailability: the thrown message, "" when it returns.
ensureCategoryAvailability(cats, userId, categoryId, spendAmount, previousSpend) ==
  IF categoryId = None \/ spendAmount <= 0 THEN ""
  ELSE IF ~findCategoryOfUser(cats, categoryId, userId) THEN "Category not found"
  ELSE LET available == cats[categoryId].assigned - (cats[categoryId].spent - previousSpend)
       IN IF spendAmount > available
            THEN "Spending exceeds available category funds"
            ELSE ""

\* tx.account.findFirst({ where: { id, userId } }) finds a row.
findAccount(accts, accountId, userId) ==
  /\ accountId \in DOMAIN accts
  /\ accts[accountId].userId = userId

\* tx.transaction.findFirst({ where: { id, account: { userId } } }) finds a row.
findTransaction(txs, accts, transactionId, userId) ==
  /\ transactionId \in DOMAIN txs
  /\ accts[txs[transactionId].accountId].userId = userId

\* tx.account.update({ data: { balance: { increment: by } } })
incrementBalance(accts, accountId, by) ==
  [accts EXCEPT ![accountId].balance = @ + by]

\* A balance decrement without its where clause: every account row is written.
decrementBalanceEveryRow(accts, accountId, by) ==
  [a \in DOMAIN accts |-> [accts[a] EXCEPT !.balance = @ - by]]

\* tx.account.update({ data: { balance: { decrement: by } } })
decrementBalance(accts, accountId, by) ==
  [accts EXCEPT ![accountId].balance = @ - by]

\* tx.category.update({ data: { spent: { increment: by } } })
incrementSpent(cats, categoryId, by) ==
  [cats EXCEPT ![categoryId].spent = @ + by]

\* tx.category.update({ data: { spent: { decrement: by } } })
decrementSpent(cats, categoryId, by) ==
  [cats EXCEPT ![categoryId].spent = @ - by]

\* tx.transaction.create / tx.transaction.update: the row is written.
putTransaction(txs, transactionId, row) ==
  [t \in DOMAIN txs \cup {transactionId} |-> IF t = transactionId THEN row ELSE txs[t]]

\* A delete that leaves the row in place.
deleteTransactionKeepsRow(txs, transactionId) == txs

\* tx.transaction.delete({ where: { id } })
deleteTransaction(txs, transactionId) ==
  [t \in DOMAIN txs \ {transactionId} |-> txs[t]]

\* ------------------------------------------- what create and remove write
\* debitAccount with the amount added where the code subtracts it.
debitAccountAdds(accts, row) ==
  incrementBalance(accts, row.accountId, row.amount)

\* create: the account balance is decremented by the row's amount.
debitAccount(accts, row) ==
  decrementBalance(accts, row.accountId, row.amount)

\* debitCategory adding the amount of every categorized row, inflows too.
debitCategoryCountsInflows(cats, row) ==
  IF row.categoryId # None
    THEN incrementSpent(cats, row.categoryId, row.amount)
    ELSE cats

\* create: spent of the row's category is incremented by its spend, if any.
debitCategory(cats, row) ==
  IF spendingAmount(row.categoryId, row.amount) > 0
    THEN incrementSpent(cats, row.categoryId, spendingAmount(row.categoryId, row.amount))
    ELSE cats

\* remove: the account balance is incremented by the row's amount.
creditAccount(accts, existing) ==
  incrementBalance(accts, existing.accountId, existing.amount)

\* creditCategory that leaves spent as it is.
creditCategoryForgets(cats, existing) == cats

\* remove: spent of the row's category is decremented by its spend, if any.
creditCategory(cats, existing) ==
  IF existing.categoryId # None
       /\ spendingAmount(existing.categoryId, existing.amount) > 0
    THEN decrementSpent(cats, existing.categoryId,
                        spendingAmount(existing.categoryId, existing.amount))
    ELSE cats

\* ------------------------------------------------------------ handlers
\* A create that runs the availability check after its writes and answers 422
\* from inside the callback (a return commits) where the code throws before them.
CreateChecksAfterWrites(userId, accountId, categoryId, amount) ==
  LET spend == spendingAmount(categoryId, amount)
      availability == ensureCategoryAvailability(categories, userId, categoryId, spend, 0)
      created == [accountId |-> accountId, categoryId |-> categoryId, amount |-> amount]
  IN /\ ops < MaxOps
     /\ ops' = ops + 1
     /\ UNCHANGED calls
     /\ UNCHANGED budgets
     /\ IF ~findAccount(accounts, accountId, userId)
          THEN /\ result' = Outcome("create", 404, "Account not found")
               /\ UNCHANGED <<accounts, categories, transactions, nextId>>
        ELSE /\ nextId <= MaxTx
             /\ transactions' = putTransaction(transactions, nextId, created)
             /\ nextId' = nextId + 1
             /\ accounts' = decrementBalance(accounts, accountId, amount)
             /\ categories' = IF spend > 0 /\ categoryId \in CategoryIds
                                THEN incrementSpent(categories, categoryId, spend)
                                ELSE categories
             /\ result' = IF availability # ""
                            THEN Outcome("create", ErrorStatus(availability), availability)
                            ELSE Outcome("create", 201, "")

\* A create that runs the availability check before it resolves the account.
CreateChecksCategoryFirst(userId, accountId, categoryId, amount) ==
  LET spend == spendingAmount(categoryId, amount)
      availability == ensureCategoryAvailability(categories, userId, categoryId, spend, 0)
      created == [accountId |-> accountId, categoryId |-> categoryId, amount |-> amount]
      done(status, error) == Outcome("create", status, error)
  IN /\ ops < MaxOps
     /\ ops' = ops + 1
     /\ UNCHANGED calls
     /\ UNCHANGED budgets
     /\ IF availability # ""
          THEN /\ result' = done(ErrorStatus(availability), availability)
               /\ UNCHANGED <<accounts, categories, transactions, nextId>>
        ELSE IF ~findAccount(accounts, accountId, userId)
          THEN /\ result' = done(404, "Account not found")
               /\ UNCHANGED <<accounts, categories, transactions, nextId>>
        ELSE IF categoryId # None /\ categoryId \notin DOMAIN categories
          THEN /\ result' = done(ErrorStatus("Foreign key constraint failed"),
                                 "Foreign key constraint failed")
               /\ UNCHANGED <<accounts, categories, transactions, nextId>>
        ELSE /\ nextId <= MaxTx
             /\ transactions' = putTransaction(transactions, nextId, created)
             /\ nextId' = nextId + 1
             /\ accounts' = debitAccount(accounts, created)
             /\ categories' = debitCategory(categories, created)
             /\ result' = done(201, "")

\* transactions.create(userId, payload)
Create(userId, accountId, categoryId, amount) ==
  LET spend == spendingAmount(categoryId, amount)
      availability == ensureCategoryAvailability(categories, userId, categoryId, spend, 0)
      created == [accountId |-> accountId, categoryId |-> categoryId, amount |-> amount]
      done(status, error) == Outcome("create", status, error)
  IN /\ ops < MaxOps
     /\ ops' = ops + 1
     /\ UNCHANGED calls
     /\ UNCHANGED budgets
     /\ IF ~findAccount(accounts, accountId, userId)
          THEN \* return 404 before any write
               /\ result' = done(404, "Account not found")
               /\ UNCHANGED <<accounts, categories, transactions, nextId>>
        ELSE IF availability # ""
          THEN \* ensureCategoryAvailability throws: rolled back
               /\ result' = done(ErrorStatus(availability), availability)
               /\ UNCHANGED <<accounts, categories, transactions, nextId>>
        ELSE IF categoryId # None /\ categoryId \notin DOMAIN categories
          THEN \* transaction.create names no category row: the write fails on
               \* category_id (FK -> categories, planning template, Data
               \* Modeling), the callback throws and is rolled back
               /\ result' = done(ErrorStatus("Foreign key constraint failed"),
                                 "Foreign key constraint failed")
               /\ UNCHANGED <<accounts, categories, transactions, nextId>>
        ELSE /\ nextId <= MaxTx
             /\ transactions' = putTransaction(transactions, nextId, created)
             /\ nextId' = nextId + 1
             /\ accounts' = debitAccount(accounts, created)
             /\ categories' = debitCategory(categories, created)
             /\ result' = done(201, "")

\* The merged next state of a patched row (transactions.patch, const next).
mergeNext(existing, keys, accountId, categoryId, amount) ==
  [accountId |-> IF "accountId" \in keys THEN accountId ELSE existing.accountId,
   categoryId |-> IF "categoryId" \in keys THEN categoryId ELSE existing.categoryId,
   amount |-> IF "amount" \in keys THEN amount ELSE existing.amount]

\* reconcileAccounts applying next - existing where the code applies
\* existing - next to an unchanged account.
reconcileAccountsReversedDelta(accts, existing, next) ==
  IF next.accountId = existing.accountId
    THEN incrementBalance(accts, existing.accountId, next.amount - existing.amount)
    ELSE decrementBalance(incrementBalance(accts, existing.accountId, existing.amount),
                          next.accountId, next.amount)

\* reconcileAccounts debiting the new account by the prior amount.
reconcileAccountsDebitsPriorAmount(accts, existing, next) ==
  IF next.accountId = existing.accountId
    THEN incrementBalance(accts, existing.accountId, existing.amount - next.amount)
    ELSE decrementBalance(incrementBalance(accts, existing.accountId, existing.amount),
                          next.accountId, existing.amount)

\* Account balances after a committed patch that found both accounts.
reconcileAccounts(accts, existing, next) ==
  IF next.accountId = existing.accountId
    THEN incrementBalance(accts, existing.accountId, existing.amount - next.amount)
    ELSE decrementBalance(incrementBalance(accts, existing.accountId, existing.amount),
                          next.accountId, next.amount)

\* reconcileCategories without the decrement of the prior category.
reconcileCategoriesKeepsOldSpend(cats, existing, next, oldSpend, newSpend) ==
  IF next.categoryId # None /\ newSpend > 0
    THEN incrementSpent(cats, next.categoryId, newSpend)
    ELSE cats

\* Category spend after a committed patch.
reconcileCategories(cats, existing, next, oldSpend, newSpend) ==
  LET credited == IF existing.categoryId # None /\ oldSpend > 0
                    THEN decrementSpent(cats, existing.categoryId, oldSpend)
                    ELSE cats
  IN IF next.categoryId # None /\ newSpend > 0
       THEN incrementSpent(credited, next.categoryId, newSpend)
       ELSE credited

\* patchAvailability crediting the prior spend also when the category changes.
patchAvailabilityAlwaysCredits(cats, userId, existing, next) ==
  ensureCategoryAvailability(cats, userId, next.categoryId,
    spendingAmount(next.categoryId, next.amount),
    spendingAmount(existing.categoryId, existing.amount))

\* patch: the availability check, with the prior spend credited back only when
\* the category stays (the thrown message, "" when it returns).
patchAvailability(cats, userId, existing, next) ==
  ensureCategoryAvailability(cats, userId, next.categoryId,
    spendingAmount(next.categoryId, next.amount),
    IF next.categoryId = existing.categoryId
      THEN spendingAmount(existing.categoryId, existing.amount)
      ELSE 0)

\* What the transaction callback of patch has written to the transaction table
\* when it returns 404 'New account not found'.
rowsAfterNewAccountNotFound(txs, transactionId, next) ==
  putTransaction(txs, transactionId, next)

\* transactions.patch(userId, transactionId, payload)
Patch(userId, transactionId, keys, accountId, categoryId, amount) ==
  LET done(status, error) == Outcome("patch", status, error)
  IN /\ ops < MaxOps
     /\ ops' = ops + 1
     /\ UNCHANGED calls
     /\ UNCHANGED <<budgets, nextId>>
     /\ IF ~findTransaction(transactions, accounts, transactionId, userId)
          THEN /\ result' = done(404, "Transaction not found")
               /\ UNCHANGED <<accounts, categories, transactions>>
        ELSE
          LET existing == transactions[transactionId]
              next == mergeNext(existing, keys, accountId, categoryId, amount)
              oldSpend == spendingAmount(existing.categoryId, existing.amount)
              newSpend == spendingAmount(next.categoryId, next.amount)
              availability == patchAvailability(categories, userId, existing, next)
          IN IF availability # ""
               THEN \* ensureCategoryAvailability throws: rolled back
                    /\ result' = done(ErrorStatus(availability), availability)
                    /\ UNCHANGED <<accounts, categories, transactions>>
             ELSE IF \/ next.accountId \notin DOMAIN accounts
                     \/ next.categoryId # None /\ next.categoryId \notin DOMAIN categories
               THEN \* transaction.update names no account or category row: the
                    \* write fails on account_id (FK -> accounts) or category_id
                    \* (FK -> categories, planning template, Data Modeling), the
                    \* callback throws and is rolled back
                    /\ result' = done(ErrorStatus("Foreign key constraint failed"),
                                      "Foreign key constraint failed")
                    /\ UNCHANGED <<accounts, categories, transactions>>
             ELSE IF /\ next.accountId # existing.accountId
                     /\ ~findAccount(accounts, next.accountId, userId)
               THEN \* return 404 after transaction.update: the callback returns,
                    \* so what it wrote is committed
                    /\ result' = done(404, "New account not found")
                    /\ transactions' =
                         rowsAfterNewAccountNotFound(transactions, transactionId, next)
                    /\ UNCHANGED <<accounts, categories>>
             ELSE /\ transactions' = putTransaction(transactions, transactionId, next)
                  /\ accounts' = reconcileAccounts(accounts, existing, next)
                  /\ categories' =
                       reconcileCategories(categories, existing, next, oldSpend, newSpend)
                  /\ result' = done(200, "")

\* transactions.remove(userId, transactionId)
Remove(userId, transactionId) ==
  LET done(status, error) == Outcome("remove", status, error)
  IN /\ ops < MaxOps
     /\ ops' = ops + 1
     /\ UNCHANGED calls
     /\ UNCHANGED <<budgets, nextId>>
     /\ IF ~findTransaction(transactions, accounts, transactionId, userId)
          THEN /\ result' = done(404, "Transaction not found")
               /\ UNCHANGED <<accounts, categories, transactions>>
        ELSE
          LET existing == transactions[transactionId]
          IN /\ accounts' = creditAccount(accounts, existing)
             /\ categories' = creditCategory(categories, existing)
             /\ transactions' = deleteTransaction(transactions, transactionId)
             /\ result' = done(200, "")

\* tx.budgetMonth.findUnique({ where: { userId_month } }): the ids it finds.
findBudget(userId, month) ==
  {b \in DOMAIN budgets : budgets[b].userId = userId /\ budgets[b].month = month}

\* tx.budgetMonth.update({ data: { availableToBudget: value } })
setAvailableToBudget(rows, budgetId, value) ==
  [rows EXCEPT ![budgetId].availableToBudget = value]

\* assigned written as the requested amount, not incremented by it.
incrementAssignedAsSet(cats, categoryId, by) ==
  [cats EXCEPT ![categoryId].assigned = by]

\* assigned decremented where the code increments.
incrementAssignedAsDecrement(cats, categoryId, by) ==
  [cats EXCEPT ![categoryId].assigned = @ - by]

\* tx.category.update({ data: { assigned: { increment: by } } })
incrementAssigned(cats, categoryId, by) ==
  [cats EXCEPT ![categoryId].assigned = @ + by]

\* categories.assign(userId, monthString, categoryId, payload)
Assign(userId, month, categoryId, amount) ==
  LET done(status, error) == Outcome("assign", status, error)
      found == findBudget(userId, month)
  IN /\ ops < MaxOps
     /\ ops' = ops + 1
     /\ UNCHANGED calls
     /\ UNCHANGED <<accounts, transactions, nextId>>
     /\ IF ~assignSchema(amount)
          THEN \* assignSchema.parse throws a ZodError before the transaction
               /\ result' = done(ErrorStatus("ZodError"), "ZodError")
               /\ UNCHANGED <<budgets, categories>>
        ELSE IF found = {}
          THEN /\ result' = done(404, "Budget month not found")
               /\ UNCHANGED <<budgets, categories>>
        ELSE
          LET budgetId == CHOOSE b \in found : TRUE
              engine == assignMoney([availableToBudget |-> budgets[budgetId].availableToBudget,
                                     assigned |-> amount])
          IN IF \/ categoryId \notin DOMAIN categories
                \/ categories[categoryId].budgetMonthId # budgetId
               THEN /\ result' = done(404, "Category not found")
                    /\ UNCHANGED <<budgets, categories>>
             ELSE IF engine.error # ""
               THEN \* assignMoney throws: rolled back
                    /\ result' = done(ErrorStatus(engine.error), engine.error)
                    /\ UNCHANGED <<budgets, categories>>
             ELSE /\ budgets' = setAvailableToBudget(budgets, budgetId,
                                                     engine.availableToBudget)
                  /\ categories' = incrementAssigned(categories, categoryId, amount)
                  /\ result' = done(200, "")

Next ==
  \/ \E u \in Users, a \in AccountInputs, c \in CategoryInputs, amt \in Amounts :
       Create(u, a, c, amt)
  \/ \E u \in Users, t \in TxIds, keys \in SUBSET PatchKeys :
       \E a \in (IF "accountId" \in keys THEN AccountInputs ELSE {NoAccount}),
          c \in (IF "categoryId" \in keys THEN CategoryInputs ELSE {None}),
          amt \in (IF "amount" \in keys THEN Amounts ELSE {1}) :
         Patch(u, t, keys, a, c, amt)
  \/ \E u \in Users, t \in TxIds : Remove(u, t)
  \/ \E u \in Users, m \in Months, c \in CategoryIds, amt \in AssignAmounts :
       Assign(u, m, c, amt)

Spec == Init /\ [][Next]_vars

\* ============================= the ledger over funded categories (SpecFunded)
\* What each category of user u1 holds after u1 has assigned that much to each
\* of the two, out of the InitAvailable of their budget month.
FundedAssigned == InitAvailable \div 2

\* The state of Spec after u1's assigns of FundedAssigned to each category of
\* budget month b1, counted from there.
InitFunded ==
  /\ accounts = [a \in AccountIds |-> [userId |-> AccountOwner[a], balance |-> OpeningBalance]]
  /\ budgets = [b \in BudgetIds |->
                  [userId |-> BudgetOwner[b], month |-> BudgetMonthOf[b],
                   availableToBudget |->
                     IF b = "b1" THEN InitAvailable - 2 * FundedAssigned
                     ELSE InitAvailable]]
  /\ categories = [c \in CategoryIds |->
                     [budgetMonthId |-> CategoryBudget[c],
                      assigned |-> IF CategoryBudget[c] = "b1" THEN FundedAssigned ELSE 0,
                      spent |-> 0]]
  /\ transactions = [t \in {} |-> 0]
  /\ nextId = 1
  /\ ops = 0
  /\ result = NoResult
  /\ calls = NoCalls

SpecFunded == InitFunded /\ [][Next]_vars

\* =============================== the API from an empty database (SpecApi)
\* availableToBudget of a budget month row the upsert creates.
DefaultAvailableToBudget == 0
\* balance values a request body may carry (accountCreateSchema defaults to 0).
BalanceInputs == {0, OpeningBalance}
\* balance values an account patch may carry (accountPatchSchema accepts any
\* number); the second is one no account create of this model stores.
PatchBalanceInputs == {0, OpeningBalance + 1}
\* Keys an account patch payload may set (accountPatchSchema).
AccountPatchKeys == {"name", "balance"}

InitApi ==
  /\ accounts = [a \in {} |-> 0]
  /\ budgets = [b \in {} |-> 0]
  /\ categories = [c \in {} |-> 0]
  /\ transactions = [t \in {} |-> 0]
  /\ nextId = 1
  /\ ops = 0
  /\ result = NoResult
  /\ calls = NoCalls

\* The id a created row gets: the first id of ids no row of rows has.
newId(ids, rows) == CHOOSE i \in ids \ DOMAIN rows : TRUE

\* tx.account.create({ data: { userId, ...input } })
createAccount(accts, id, userId, balance) ==
  [a \in DOMAIN accts \cup {id} |->
     IF a = id THEN [userId |-> userId, balance |-> balance] ELSE accts[a]]

\* tx.account.update({ where: { id }, data: input }): balance is written when
\* the payload carries it; a name feeds no balance and rows do not carry it.
updateAccount(accts, accountId, keys, balance) ==
  IF "balance" \in keys THEN [accts EXCEPT ![accountId].balance = balance] ELSE accts

\* An upsert that inserts a row also when the (userId, month) row exists.
upsertBudgetMonthAlwaysInserts(rows, userId, month) ==
  LET id == newId(BudgetIds, rows)
  IN [b \in DOMAIN rows \cup {id} |->
        IF b = id
          THEN [userId |-> userId, month |-> month,
                availableToBudget |-> DefaultAvailableToBudget]
          ELSE rows[b]]

\* tx.budgetMonth.upsert({ where: { userId_month }, update: {}, create: { userId, month } })
upsertBudgetMonth(rows, userId, month) ==
  IF \E b \in DOMAIN rows : rows[b].userId = userId /\ rows[b].month = month
    THEN rows
  ELSE LET id == newId(BudgetIds, rows)
       IN [b \in DOMAIN rows \cup {id} |->
             IF b = id
               THEN [userId |-> userId, month |-> month,
                     availableToBudget |-> DefaultAvailableToBudget]
               ELSE rows[b]]

\* tx.category.create({ data: { budgetMonthId, ...input } })
createCategory(cats, id, budgetMonthId) ==
  [c \in DOMAIN cats \cup {id} |->
     IF c = id THEN [budgetMonthId |-> budgetMonthId, assigned |-> 0, spent |-> 0]
     ELSE cats[c]]

\* accounts.create(userId, payload)
AccountCreate(userId, balance) ==
  /\ ops < MaxOps
  /\ AccountIds \ DOMAIN accounts # {}
  /\ ops' = ops + 1
  /\ UNCHANGED calls
  /\ accounts' = createAccount(accounts, newId(AccountIds, accounts), userId, balance)
  /\ result' = Outcome("accountCreate", 201, "")
  /\ UNCHANGED <<budgets, categories, transactions, nextId>>

\* accounts.patch(userId, accountId, payload)
AccountPatch(userId, accountId, keys, balance) ==
  /\ ops < MaxOps
  /\ ops' = ops + 1
  /\ UNCHANGED calls
  /\ UNCHANGED <<budgets, categories, transactions, nextId>>
  /\ IF ~findAccount(accounts, accountId, userId)
       THEN /\ result' = Outcome("accountPatch", 404, "Account not found")
            /\ UNCHANGED accounts
       ELSE /\ accounts' = updateAccount(accounts, accountId, keys, balance)
            /\ result' = Outcome("accountPatch", 200, "")

\* accounts.list(userId)
AccountList(userId) ==
  /\ ops < MaxOps
  /\ ops' = ops + 1
  /\ UNCHANGED calls
  /\ result' = Outcome("accountList", 200, "")
  /\ UNCHANGED <<accounts, budgets, categories, transactions, nextId>>

\* categories.list(userId, monthString)
CategoryList(userId, month) ==
  /\ ops < MaxOps
  /\ ops' = ops + 1
  /\ UNCHANGED calls
  /\ result' = Outcome("categoryList", 200, "")
  /\ UNCHANGED <<accounts, budgets, categories, transactions, nextId>>

\* transactions.list(userId, query)
TransactionList(userId) ==
  /\ ops < MaxOps
  /\ ops' = ops + 1
  /\ UNCHANGED calls
  /\ result' = Outcome("transactionList", 200, "")
  /\ UNCHANGED <<accounts, budgets, categories, transactions, nextId>>

\* categories.create(userId, monthString, payload)
CategoryCreate(userId, month) ==
  /\ ops < MaxOps
  /\ CategoryIds \ DOMAIN categories # {}
  /\ findBudget(userId, month) # {} \/ BudgetIds \ DOMAIN budgets # {}
  /\ ops' = ops + 1
  /\ UNCHANGED calls
  /\ budgets' = upsertBudgetMonth(budgets, userId, month)
  /\ LET budgetId == CHOOSE b \in DOMAIN budgets' :
                       budgets'[b].userId = userId /\ budgets'[b].month = month
     IN categories' = createCategory(categories, newId(CategoryIds, categories), budgetId)
  /\ result' = Outcome("categoryCreate", 201, "")
  /\ UNCHANGED <<accounts, transactions, nextId>>

ApiNext ==
  \/ \E u \in Users, b \in BalanceInputs : AccountCreate(u, b)
  \/ \E u \in Users, a \in AccountInputs, keys \in SUBSET AccountPatchKeys :
       \E b \in (IF "balance" \in keys THEN PatchBalanceInputs ELSE {0}) :
         AccountPatch(u, a, keys, b)
  \/ \E u \in Users : AccountList(u)
  \/ \E u \in Users, m \in Months : CategoryList(u, m)
  \/ \E u \in Users : TransactionList(u)
  \/ \E u \in Users, m \in Months : CategoryCreate(u, m)
  \/ \E u \in Users, m \in Months, c \in CategoryIds, amt \in AssignAmounts :
       Assign(u, m, c, amt)
  \/ \E u \in Users, a \in AccountInputs, c \in CategoryInputs, amt \in Amounts :
       Create(u, a, c, amt)
  \/ \E u \in Users, t \in TxIds, keys \in SUBSET PatchKeys :
       \E a \in (IF "accountId" \in keys THEN AccountInputs ELSE {NoAccount}),
          c \in (IF "categoryId" \in keys THEN CategoryInputs ELSE {None}),
          amt \in (IF "amount" \in keys THEN Amounts ELSE {1}) :
         Patch(u, t, keys, a, c, amt)
  \/ \E u \in Users, t \in TxIds : Remove(u, t)

SpecApi == InitApi /\ [][ApiNext]_vars

\* ================== requests interleaved statement by statement (SpecRace)
\* The database is PostgreSQL (planning template, Tech Stack) and no
\* $transaction call sets an isolation level, so a transaction runs READ
\* COMMITTED: a statement reads what is committed when it runs, an UPDATE or
\* DELETE locks its row until its transaction ends and waits while another
\* open transaction holds that lock, and nothing a transaction wrote is seen
\* by another before its commit. A call's writes are kept in calls[p] (bal and
\* cat: what it added to a balance, to spent and assigned; avail: the
\* availableToBudget it set; rows: the transaction rows it wrote or deleted)
\* and reach the tables at its commit; the rows it has locked are the domains
\* of these four.

\* Another open transaction holds the lock of row id of the table written
\* through field.
LockedByOther(p, field, id) ==
  \E q \in Procs \ {p} : id \in DOMAIN calls[q][field]

\* { increment: by } on a row the transaction may already have written.
addTo(f, k, by) ==
  [x \in DOMAIN f \cup {k} |->
     IF x = k THEN (IF k \in DOMAIN f THEN f[k] ELSE 0) + by ELSE f[x]]

\* A write of value v to row k.
setTo(f, k, v) == [x \in DOMAIN f \cup {k} |-> IF x = k THEN v ELSE f[x]]

NoCategoryWrite == [spent |-> 0, assigned |-> 0]
\* spent: { increment: by } on category k.
addSpent(f, k, by) ==
  setTo(f, k, [spent |-> (IF k \in DOMAIN f THEN f[k].spent ELSE 0) + by,
               assigned |-> IF k \in DOMAIN f THEN f[k].assigned ELSE 0])
\* assigned: { increment: by } on category k.
addAssigned(f, k, by) ==
  setTo(f, k, [spent |-> IF k \in DOMAIN f THEN f[k].spent ELSE 0,
               assigned |-> (IF k \in DOMAIN f THEN f[k].assigned ELSE 0) + by])

\* The tables after the commit of the writes w of a call.
committedAccounts(w) ==
  [a \in DOMAIN accounts |->
     IF a \in DOMAIN w.bal
       THEN [accounts[a] EXCEPT !.balance = @ + w.bal[a]]
       ELSE accounts[a]]
committedCategories(w) ==
  [c \in DOMAIN categories |->
     IF c \in DOMAIN w.cat
       THEN [categories[c] EXCEPT !.spent = @ + w.cat[c].spent,
                                  !.assigned = @ + w.cat[c].assigned]
       ELSE categories[c]]
committedBudgets(w) ==
  [b \in DOMAIN budgets |->
     IF b \in DOMAIN w.avail
       THEN [budgets[b] EXCEPT !.availableToBudget = w.avail[b]]
       ELSE budgets[b]]
committedTransactions(w) ==
  LET deleted == {t \in DOMAIN w.rows : w.rows[t].deleted}
      written == DOMAIN w.rows \ deleted
  IN [t \in (DOMAIN transactions \cup written) \ deleted |->
        IF t \in written THEN w.rows[t].row ELSE transactions[t]]

\* The $transaction callback of call p returns: the writes w are committed,
\* the locks are released and the request is answered.
Commit(p, w, status, error) ==
  /\ accounts' = committedAccounts(w)
  /\ categories' = committedCategories(w)
  /\ budgets' = committedBudgets(w)
  /\ transactions' = committedTransactions(w)
  /\ calls' = [calls EXCEPT ![p] = Idle]
  /\ result' = Outcome(calls[p].op, status, error)

\* The callback of call p throws (or the handler throws before it): what it
\* wrote is rolled back, the locks are released and the error middleware
\* answers.
Rollback(p, op, error) ==
  /\ UNCHANGED <<accounts, categories, budgets, transactions>>
  /\ calls' = [calls EXCEPT ![p] = Idle]
  /\ result' = Outcome(op, ErrorStatus(error), error)

\* Call p goes on to its next statement with the fields of c.
Continue(p, c) ==
  /\ calls' = [calls EXCEPT ![p] = c]
  /\ UNCHANGED <<accounts, categories, budgets, transactions, result>>

\* --- transactions.create, statement by statement
\* const account = await tx.account.findFirst(...); if (!account) return 404
createFindAccount(p, userId, accountId, categoryId, amount) ==
  /\ calls[p].pc = "idle"
  /\ ops < MaxOps
  /\ ops' = ops + 1
  /\ UNCHANGED nextId
  /\ IF ~findAccount(accounts, accountId, userId)
       THEN /\ UNCHANGED <<accounts, categories, budgets, transactions, calls>>
            /\ result' = Outcome("create", 404, "Account not found")
       ELSE Continue(p, [Idle EXCEPT !.pc = "createCheck", !.op = "create",
                                     !.userId = userId,
                                     !.pool = accounts[accountId].balance,
                                     !.next = [accountId |-> accountId,
                                               categoryId |-> categoryId,
                                               amount |-> amount]])

\* await ensureCategoryAvailability(tx, userId, input.categoryId, spend)
createCheck(p) ==
  LET c == calls[p]
      spend == spendingAmount(c.next.categoryId, c.next.amount)
      availability ==
        ensureCategoryAvailability(categories, c.userId, c.next.categoryId, spend, 0)
  IN /\ c.pc = "createCheck"
     /\ UNCHANGED <<nextId, ops>>
     /\ IF availability # ""
          THEN Rollback(p, "create", availability)
          ELSE Continue(p, [c EXCEPT !.pc = "createInsert"])

\* const created = await tx.transaction.create(...)
createInsert(p) ==
  LET c == calls[p]
  IN /\ c.pc = "createInsert"
     /\ UNCHANGED ops
     /\ IF c.next.categoryId # None /\ c.next.categoryId \notin DOMAIN categories
          THEN /\ Rollback(p, "create", "Foreign key constraint failed")
               /\ UNCHANGED nextId
          ELSE /\ nextId <= MaxTx
               /\ nextId' = nextId + 1
               /\ Continue(p, [c EXCEPT !.pc = "createDebit", !.id = nextId,
                                        !.rows = setTo(@, nextId,
                                                   [deleted |-> FALSE, row |-> c.next])])

\* A createDebit that writes the balance read by findFirst less the amount,
\* an absolute value, where the code sends a decrement.
createDebitFromRead(p) ==
  LET c == calls[p]
      spend == spendingAmount(c.next.categoryId, c.next.amount)
      w == [c EXCEPT !.bal = setTo(@, c.next.accountId,
                               (c.pool - c.next.amount) - accounts[c.next.accountId].balance)]
  IN /\ c.pc = "createDebit"
     /\ ~LockedByOther(p, "bal", c.next.accountId)
     /\ UNCHANGED <<nextId, ops>>
     /\ IF spend > 0
          THEN Continue(p, [w EXCEPT !.pc = "createSpend"])
          ELSE Commit(p, w, 201, "")

\* await tx.account.update({ data: { balance: { decrement: input.amount } } })
\* and, if spend is 0, return 201
createDebit(p) ==
  LET c == calls[p]
      spend == spendingAmount(c.next.categoryId, c.next.amount)
      w == [c EXCEPT !.bal = addTo(@, c.next.accountId, 0 - c.next.amount)]
  IN /\ c.pc = "createDebit"
     /\ ~LockedByOther(p, "bal", c.next.accountId)
     /\ UNCHANGED <<nextId, ops>>
     /\ IF spend > 0
          THEN Continue(p, [w EXCEPT !.pc = "createSpend"])
          ELSE Commit(p, w, 201, "")

\* await tx.category.update({ data: { spent: { increment: spend } } }); return 201
createSpend(p) ==
  LET c == calls[p]
      spend == spendingAmount(c.next.categoryId, c.next.amount)
      w == [c EXCEPT !.cat = addSpent(@, c.next.categoryId, spend)]
  IN /\ c.pc = "createSpend"
     /\ ~LockedByOther(p, "cat", c.next.categoryId)
     /\ UNCHANGED <<nextId, ops>>
     /\ Commit(p, w, 201, "")

\* --- transactions.remove, statement by statement
\* const existing = await tx.transaction.findFirst(...); if (!existing) return 404
removeFind(p, userId, transactionId) ==
  /\ calls[p].pc = "idle"
  /\ ops < MaxOps
  /\ ops' = ops + 1
  /\ UNCHANGED nextId
  /\ IF ~findTransaction(transactions, accounts, transactionId, userId)
       THEN /\ UNCHANGED <<accounts, categories, budgets, transactions, calls>>
            /\ result' = Outcome("remove", 404, "Transaction not found")
       ELSE Continue(p, [Idle EXCEPT !.pc = "removeCredit", !.op = "remove",
                                     !.userId = userId, !.id = transactionId,
                                     !.existing = transactions[transactionId]])

\* await tx.account.update({ data: { balance: { increment: Number(existing.amount) } } })
removeCredit(p) ==
  LET c == calls[p]
      oldSpend == spendingAmount(c.existing.categoryId, c.existing.amount)
      w == [c EXCEPT !.bal = addTo(@, c.existing.accountId, c.existing.amount)]
  IN /\ c.pc = "removeCredit"
     /\ ~LockedByOther(p, "bal", c.existing.accountId)
     /\ UNCHANGED <<nextId, ops>>
     /\ Continue(p, [w EXCEPT !.pc = IF c.existing.categoryId # None /\ oldSpend > 0
                                       THEN "removeUnspend" ELSE "removeDelete"])

\* await tx.category.update({ data: { spent: { decrement: oldSpend } } })
removeUnspend(p) ==
  LET c == calls[p]
      oldSpend == spendingAmount(c.existing.categoryId, c.existing.amount)
  IN /\ c.pc = "removeUnspend"
     /\ ~LockedByOther(p, "cat", c.existing.categoryId)
     /\ UNCHANGED <<nextId, ops>>
     /\ Continue(p, [c EXCEPT !.pc = "removeDelete",
                              !.cat = addSpent(@, c.existing.categoryId, 0 - oldSpend)])

\* await tx.transaction.delete({ where: { id } }); return 200
removeDelete(p) ==
  LET c == calls[p]
  IN /\ c.pc = "removeDelete"
     /\ ~LockedByOther(p, "rows", c.id)
     /\ UNCHANGED <<nextId, ops>>
     /\ IF c.id \notin DOMAIN transactions
          THEN \* another call's delete of the row was committed meanwhile
               Rollback(p, "remove", PrismaRecordNotFound)
          ELSE Commit(p, [c EXCEPT !.rows = setTo(@, c.id,
                                      [deleted |-> TRUE, row |-> c.existing])],
                      200, "")

\* --- transactions.patch, statement by statement
\* const existing = await tx.transaction.findFirst(...); const next = {...}
patchFind(p, userId, transactionId, keys, accountId, categoryId, amount) ==
  /\ calls[p].pc = "idle"
  /\ ops < MaxOps
  /\ ops' = ops + 1
  /\ UNCHANGED nextId
  /\ IF ~findTransaction(transactions, accounts, transactionId, userId)
       THEN /\ UNCHANGED <<accounts, categories, budgets, transactions, calls>>
            /\ result' = Outcome("patch", 404, "Transaction not found")
       ELSE Continue(p, [Idle EXCEPT !.pc = "patchCheck", !.op = "patch",
                                     !.userId = userId, !.id = transactionId,
                                     !.existing = transactions[transactionId],
                                     !.next = mergeNext(transactions[transactionId],
                                                keys, accountId, categoryId, amount)])

\* await ensureCategoryAvailability(tx, userId, next.categoryId, newSpend, ...)
patchCheck(p) ==
  LET c == calls[p]
      availability == patchAvailability(categories, c.userId, c.existing, c.next)
  IN /\ c.pc = "patchCheck"
     /\ UNCHANGED <<nextId, ops>>
     /\ IF availability # ""
          THEN Rollback(p, "patch", availability)
          ELSE Continue(p, [c EXCEPT !.pc = "patchUpdate"])

\* The statement of patch after the account writes.
patchCategoryStep(c) ==
  IF c.existing.categoryId # None
       /\ spendingAmount(c.existing.categoryId, c.existing.amount) > 0
    THEN "patchUnspend"
  ELSE IF c.next.categoryId # None
            /\ spendingAmount(c.next.categoryId, c.next.amount) > 0
    THEN "patchRespend"
  ELSE "return"

\* Call p, its account writes w done, goes on to the category writes or returns 200.
patchAfterAccounts(p, w) ==
  IF patchCategoryStep(w) = "return"
    THEN Commit(p, w, 200, "")
    ELSE Continue(p, [w EXCEPT !.pc = patchCategoryStep(w)])

\* const updated = await tx.transaction.update({ where: { id }, data: {...} })
patchUpdate(p) ==
  LET c == calls[p]
  IN /\ c.pc = "patchUpdate"
     /\ ~LockedByOther(p, "rows", c.id)
     /\ UNCHANGED <<nextId, ops>>
     /\ IF c.id \notin DOMAIN transactions
          THEN \* another call's delete of the row was committed meanwhile
               Rollback(p, "patch", PrismaRecordNotFound)
        ELSE IF \/ c.next.accountId \notin DOMAIN accounts
                \/ c.next.categoryId # None /\ c.next.categoryId \notin DOMAIN categories
          THEN Rollback(p, "patch", "Foreign key constraint failed")
        ELSE Continue(p, [c EXCEPT !.pc = IF c.next.accountId = c.existing.accountId
                                            THEN "patchAdjust" ELSE "patchFindNew",
                                   !.rows = setTo(@, c.id,
                                              [deleted |-> FALSE, row |-> c.next])])

\* next.accountId === existing.accountId: one update,
\* balance: { increment: Number(existing.amount) - next.amount }
patchAdjust(p) ==
  LET c == calls[p]
  IN /\ c.pc = "patchAdjust"
     /\ ~LockedByOther(p, "bal", c.existing.accountId)
     /\ UNCHANGED <<nextId, ops>>
     /\ patchAfterAccounts(p, [c EXCEPT !.bal = addTo(@, c.existing.accountId,
                                                  c.existing.amount - c.next.amount)])

\* const nextAccount = await tx.account.findFirst(...);
\* if (!nextAccount) return 404: the row written by patchUpdate is committed
patchFindNew(p) ==
  LET c == calls[p]
  IN /\ c.pc = "patchFindNew"
     /\ UNCHANGED <<nextId, ops>>
     /\ IF ~findAccount(accounts, c.next.accountId, c.userId)
          THEN Commit(p, c, 404, "New account not found")
          ELSE Continue(p, [c EXCEPT !.pc = "patchCreditOld"])

\* await tx.account.update({ where: { id: existing.accountId },
\*   data: { balance: { increment: Number(existing.amount) } } })
patchCreditOld(p) ==
  LET c == calls[p]
  IN /\ c.pc = "patchCreditOld"
     /\ ~LockedByOther(p, "bal", c.existing.accountId)
     /\ UNCHANGED <<nextId, ops>>
     /\ Continue(p, [c EXCEPT !.pc = "patchDebitNew",
                              !.bal = addTo(@, c.existing.accountId, c.existing.amount)])

\* await tx.account.update({ where: { id: next.accountId },
\*   data: { balance: { decrement: next.amount } } })
patchDebitNew(p) ==
  LET c == calls[p]
  IN /\ c.pc = "patchDebitNew"
     /\ ~LockedByOther(p, "bal", c.next.accountId)
     /\ UNCHANGED <<nextId, ops>>
     /\ patchAfterAccounts(p, [c EXCEPT !.bal = addTo(@, c.next.accountId,
                                                  0 - c.next.amount)])

\* await tx.category.update({ where: { id: existing.categoryId },
\*   data: { spent: { decrement: oldSpend } } })
patchUnspend(p) ==
  LET c == calls[p]
      oldSpend == spendingAmount(c.existing.categoryId, c.existing.amount)
      newSpend == spendingAmount(c.next.categoryId, c.next.amount)
      w == [c EXCEPT !.cat = addSpent(@, c.existing.categoryId, 0 - oldSpend)]
  IN /\ c.pc = "patchUnspend"
     /\ ~LockedByOther(p, "cat", c.existing.categoryId)
     /\ UNCHANGED <<nextId, ops>>
     /\ IF c.next.categoryId # None /\ newSpend > 0
          THEN Continue(p, [w EXCEPT !.pc = "patchRespend"])
          ELSE Commit(p, w, 200, "")

\* await tx.category.update({ where: { id: next.categoryId },
\*   data: { spent: { increment: newSpend } } }); return 200
patchRespend(p) ==
  LET c == calls[p]
      newSpend == spendingAmount(c.next.categoryId, c.next.amount)
  IN /\ c.pc = "patchRespend"
     /\ ~LockedByOther(p, "cat", c.next.categoryId)
     /\ UNCHANGED <<nextId, ops>>
     /\ Commit(p, [c EXCEPT !.cat = addSpent(@, c.next.categoryId, newSpend)], 200, "")

\* --- categories.assign, statement by statement
\* assignSchema.parse(payload); const budget = await tx.budgetMonth.findUnique(...)
assignFindBudget(p, userId, month, categoryId, amount) ==
  LET found == findBudget(userId, month)
  IN /\ calls[p].pc = "idle"
     /\ ops < MaxOps
     /\ ops' = ops + 1
     /\ UNCHANGED nextId
     /\ IF ~assignSchema(amount)
          THEN /\ UNCHANGED <<accounts, categories, budgets, transactions, calls>>
               /\ result' = Outcome("assign", ErrorStatus("ZodError"), "ZodError")
        ELSE IF found = {}
          THEN /\ UNCHANGED <<accounts, categories, budgets, transactions, calls>>
               /\ result' = Outcome("assign", 404, "Budget month not found")
        ELSE LET budgetId == CHOOSE b \in found : TRUE
             IN Continue(p, [Idle EXCEPT !.pc = "assignFindCategory", !.op = "assign",
                                         !.userId = userId, !.budgetId = budgetId,
                                         !.pool = budgets[budgetId].availableToBudget,
                                         !.next = [NoRow EXCEPT !.categoryId = categoryId,
                                                                !.amount = amount]])

\* const category = await tx.category.findFirst(...); if (!category) return 404;
\* const engine = assignMoney({ availableToBudget: Number(budget.availableToBudget), ... })
assignFindCategory(p) ==
  LET c == calls[p]
      engine == assignMoney([availableToBudget |-> c.pool, assigned |-> c.next.amount])
  IN /\ c.pc = "assignFindCategory"
     /\ UNCHANGED <<nextId, ops>>
     /\ IF \/ c.next.categoryId \notin DOMAIN categories
           \/ categories[c.next.categoryId].budgetMonthId # c.budgetId
          THEN Commit(p, c, 404, "Category not found")
        ELSE IF engine.error # ""
          THEN Rollback(p, "assign", engine.error)
        ELSE Continue(p, [c EXCEPT !.pc = "assignUpdateBudget"])

\* await tx.budgetMonth.update({ data: { availableToBudget: engine.availableToBudget } })
assignUpdateBudget(p) ==
  LET c == calls[p]
      engine == assignMoney([availableToBudget |-> c.pool, assigned |-> c.next.amount])
  IN /\ c.pc = "assignUpdateBudget"
     /\ ~LockedByOther(p, "avail", c.budgetId)
     /\ UNCHANGED <<nextId, ops>>
     /\ Continue(p, [c EXCEPT !.pc = "assignUpdateCategory",
                              !.avail = setTo(@, c.budgetId, engine.availableToBudget)])

\* await tx.category.update({ data: { assigned: { increment: input.amount } } }); return 200
assignUpdateCategory(p) ==
  LET c == calls[p]
  IN /\ c.pc = "assignUpdateCategory"
     /\ ~LockedByOther(p, "cat", c.next.categoryId)
     /\ UNCHANGED <<nextId, ops>>
     /\ Commit(p, [c EXCEPT !.cat = addAssigned(@, c.next.categoryId, c.next.amount)],
               200, "")

\* --- row locks
\* The table and the row whose lock the next statement of call c takes.
LockField(c) ==
  IF c.pc \in {"removeDelete", "patchUpdate"} THEN "rows"
  ELSE IF c.pc = "assignUpdateBudget" THEN "avail"
  ELSE IF c.pc \in {"createSpend", "removeUnspend", "patchUnspend", "patchRespend",
                    "assignUpdateCategory"} THEN "cat"
  ELSE IF c.pc \in {"createDebit", "removeCredit", "patchAdjust", "patchCreditOld",
                    "patchDebitNew"} THEN "bal"
  ELSE "none"
\* Call p stands before a write of a row another open transaction has locked.
Blocked(p) ==
  LET c == calls[p]
  IN CASE LockField(c) = "rows" -> LockedByOther(p, "rows", c.id)
       [] LockField(c) = "avail" -> LockedByOther(p, "avail", c.budgetId)
       [] LockField(c) = "cat" ->
            LockedByOther(p, "cat", IF c.pc \in {"removeUnspend", "patchUnspend"}
                                      THEN c.existing.categoryId ELSE c.next.categoryId)
       [] LockField(c) = "bal" ->
            LockedByOther(p, "bal", IF c.pc \in {"createDebit", "patchDebitNew"}
                                      THEN c.next.accountId ELSE c.existing.accountId)
       [] OTHER -> FALSE

\* Every call waits for a lock another holds: PostgreSQL ends the deadlock by
\* failing the statement of one of them, whose transaction is rolled back.
deadlockAbort(p) ==
  /\ \A q \in Procs : Blocked(q)
  /\ UNCHANGED <<nextId, ops>>
  /\ Rollback(p, calls[p].op, "deadlock detected")

RECURSIVE SumRowAmounts(_, _)
\* Sum of the amounts of the rows of txs whose ids are in ids.
SumRowAmounts(txs, ids) ==
  IF ids = {} THEN 0
  ELSE LET t == CHOOSE x \in ids : TRUE
       IN txs[t].amount + SumRowAmounts(txs, ids \ {t})

\* --- the states the interleaved requests start from, and their inputs
\* The transactions already stored: none, the first, or both.
StoredRows ==
  [t \in 1..2 |-> IF t = 1
                    THEN [accountId |-> "a1", categoryId |-> "c1", amount |-> FundedAssigned]
                    ELSE [accountId |-> "a2", categoryId |-> None, amount |-> -1]]

\* The states of the sequential ledger after u1 assigned FundedAssigned to c1
\* and then created none, the first or both of StoredRows; calls are counted
\* from there.
InitRace ==
  \E n \in 0..2 :
    /\ transactions = [t \in 1..n |-> StoredRows[t]]
    /\ nextId = n + 1
    /\ accounts = [a \in AccountIds |->
                     [userId |-> AccountOwner[a],
                      balance |-> OpeningBalance
                                    - SumRowAmounts(StoredRows, {t \in 1..n : StoredRows[t].accountId = a})]]
    /\ budgets = [b \in BudgetIds |->
                    [userId |-> BudgetOwner[b], month |-> BudgetMonthOf[b],
                     availableToBudget |->
                       IF b = "b1" THEN InitAvailable - FundedAssigned ELSE InitAvailable]]
    /\ categories = [c \in CategoryIds |->
                       [budgetMonthId |-> CategoryBudget[c],
                        assigned |-> IF c = "c1" THEN FundedAssigned ELSE 0,
                        spent |-> IF c = "c1" /\ n >= 1 THEN FundedAssigned ELSE 0]]
    /\ ops = 0
    /\ result = NoResult
    /\ calls = NoCalls

\* What the interleaved requests carry: u1's requests on u1's accounts and
\* first category.
RaceUsers == {"u1"}
RaceAccounts == {"a1", "a2"}
RaceCategories == {"c1", None}
RaceAmounts == {-1, 1}
RaceAssignAmounts == {1, 2}
\* A patch among them sets the account, the amount, both or neither.
RacePatchKeys == {"accountId", "amount"}

RaceLedgerNext ==
  \/ \E p \in Procs, u \in RaceUsers, a \in RaceAccounts, c \in RaceCategories,
        amt \in RaceAmounts : createFindAccount(p, u, a, c, amt)
  \/ \E p \in Procs : createCheck(p)
  \/ \E p \in Procs : createInsert(p)
  \/ \E p \in Procs : createDebit(p)
  \/ \E p \in Procs : createSpend(p)
  \/ \E p \in Procs, u \in RaceUsers, t \in TxIds : removeFind(p, u, t)
  \/ \E p \in Procs : removeCredit(p)
  \/ \E p \in Procs : removeUnspend(p)
  \/ \E p \in Procs : removeDelete(p)

RaceNext ==
  \/ RaceLedgerNext
  \/ \E p \in Procs, u \in RaceUsers, t \in TxIds, keys \in SUBSET RacePatchKeys :
       \E a \in (IF "accountId" \in keys THEN RaceAccounts ELSE {NoAccount}),
          amt \in (IF "amount" \in keys THEN RaceAmounts ELSE {1}) :
         patchFind(p, u, t, keys, a, None, amt)
  \/ \E p \in Procs : patchCheck(p)
  \/ \E p \in Procs : patchUpdate(p)
  \/ \E p \in Procs : patchAdjust(p)
  \/ \E p \in Procs : patchFindNew(p)
  \/ \E p \in Procs : patchCreditOld(p)
  \/ \E p \in Procs : patchDebitNew(p)
  \/ \E p \in Procs : patchUnspend(p)
  \/ \E p \in Procs : patchRespend(p)
  \/ \E p \in Procs, u \in RaceUsers, amt \in RaceAssignAmounts :
       assignFindBudget(p, u, "2026-01", "c1", amt)
  \/ \E p \in Procs : assignFindCategory(p)
  \/ \E p \in Procs : assignUpdateBudget(p)
  \/ \E p \in Procs : assignUpdateCategory(p)
  \/ \E p \in Procs : deadlockAbort(p)

SpecRace == InitRace /\ [][RaceNext]_vars
SpecRaceLedger == InitRace /\ [][RaceLedgerNext]_vars

\* ===================================================== derived quantities
RECURSIVE SumAmounts(_, _)
\* Sum of the amounts of the rows of txs whose ids are in ids.
SumAmounts(txs, ids) ==
  IF ids = {} THEN 0
  ELSE LET t == CHOOSE x \in ids : TRUE
       IN txs[t].amount + SumAmounts(txs, ids \ {t})

RECURSIVE SumSpend(_, _)
\* Sum of the spend contributions of the rows of txs whose ids are in ids.
SumSpend(txs, ids) ==
  IF ids = {} THEN 0
  ELSE LET t == CHOOSE x \in ids : TRUE
       IN (IF txs[t].categoryId # None /\ txs[t].amount > 0 THEN txs[t].amount ELSE 0)
          + SumSpend(txs, ids \ {t})

RECURSIVE SumAssigned(_, _)
\* Sum of assigned over the category rows whose ids are in ids.
SumAssigned(cats, ids) ==
  IF ids = {} THEN 0
  ELSE LET c == CHOOSE x \in ids : TRUE
       IN cats[c].assigned + SumAssigned(cats, ids \ {c})

OnAccount(a) == {t \in DOMAIN transactions : transactions[t].accountId = a}
OnCategory(c) == {t \in DOMAIN transactions : transactions[t].categoryId = c}
CategoriesOf(b) == {c \in CategoryIds : categories[c].budgetMonthId = b}
\* Ids of rows that were created and have been removed.
Removed == {t \in TxIds : t < nextId /\ t \notin DOMAIN transactions}

\* ================================================================ claims

\* C1: after any sequence of transaction create/patch/remove calls, every
\* account's balance is its opening balance less the amounts of the active
\* transactions that reference it (create subtracts the amount, remove adds
\* it back: the balance is the signed sum of its transactions).
BalanceIdentity ==
  \A a \in AccountIds :
    accounts[a].balance = OpeningBalance - SumAmounts(transactions, OnAccount(a))

\* C2: after any sequence of create/patch/remove calls, failed ones included,
\* every category's spent is the sum of the spend contributions of the active
\* transactions that reference it.
SpendIdentity ==
  \A c \in CategoryIds :
    categories[c].spent = SumSpend(transactions, OnCategory(c))

\* C3: a patch answered 'New account not found' (the new account is not the
\* caller's) leaves the transaction rows, every account balance and every
\* category's spent as they were.
FailedAccountSwapMutatesNothing ==
  [][(result'.op = "patch" /\ result'.status = 404
        /\ result'.error = "New account not found")
      => UNCHANGED <<accounts, categories, transactions>>]_vars

\* C4: a create by a caller who owns the account, against a category of the
\* caller's own budget, with positive amount s > assigned - spent, is rejected
\* with 'Spending exceeds available category funds' (422) and writes nothing:
\* no row is added, no balance and no spent changes.
OverextendedCreateRejected ==
  [][result'.op = "create" =>
      \A u \in Users, a \in AccountIds, c \in CategoryIds, s \in Amounts :
        ( /\ s > 0
          /\ accounts[a].userId = u
          /\ budgets[categories[c].budgetMonthId].userId = u
          /\ s > categories[c].assigned - categories[c].spent
          /\ Create(u, a, c, s) )
        => /\ result'.status = 422
           /\ result'.error = "Spending exceeds available category funds"
           /\ UNCHANGED <<accounts, budgets, categories, transactions, nextId>>]_vars

\* C4 witness: a create was rejected as overextended against a category that
\* has money assigned and spent.
OverextendedCreateSeen ==
  /\ result.op = "create"
  /\ result.error = "Spending exceeds available category funds"
  /\ \E c \in CategoryIds : categories[c].assigned > 0 /\ categories[c].spent > 0

\* C5: starting with spent <= assigned everywhere, every category keeps
\* spent <= assigned under any sequence of assign, create, patch and remove.
NoOverspend ==
  \A c \in CategoryIds : categories[c].spent <= categories[c].assigned

\* C5 witness: an accepted patch leaves a category spent to exactly its
\* assigned amount by the transactions that reference it.
FullySpentSeen ==
  /\ result.op = "patch"
  /\ result.status = 200
  /\ \E c \in CategoryIds :
       /\ categories[c].assigned > 0
       /\ categories[c].spent = categories[c].assigned
       /\ Cardinality(OnCategory(c)) >= 1

\* C6: for every budget month, availableToBudget plus the assigned of its
\* categories is what the pool held initially; so the assigned amounts never
\* add up to more than the pool.
PoolConserved ==
  \A b \in BudgetIds :
    /\ budgets[b].availableToBudget + SumAssigned(categories, CategoriesOf(b))
         = InitAvailable
    /\ SumAssigned(categories, CategoriesOf(b)) <= InitAvailable

\* C6 witness: two categories of one budget month both hold assigned money.
PoolSplitSeen ==
  \E c, d \in CategoryIds :
    /\ c # d
    /\ categories[c].budgetMonthId = categories[d].budgetMonthId
    /\ categories[c].assigned > 0
    /\ categories[d].assigned > 0

\* C7: an assign answered 200 for amount r takes r from the budget month's
\* availableToBudget, adds r to the category's assigned, and changes no other
\* budget month, category, account or transaction; and every assign with
\* 0 <= r <= availableToBudget to a category of the caller's month is answered 200.
AssignMovesMoney ==
  [][result'.op = "assign" =>
      \A u \in Users, m \in Months, c \in CategoryIds, r \in AssignAmounts :
        Assign(u, m, c, r) =>
          LET found == {b \in BudgetIds : budgets[b].userId = u /\ budgets[b].month = m}
              b == categories[c].budgetMonthId
          IN /\ ( /\ b \in found
                  /\ 0 <= r
                  /\ r <= budgets[b].availableToBudget ) <=> (result'.status = 200)
             /\ result'.status = 200 =>
                  /\ budgets'[b].availableToBudget = budgets[b].availableToBudget - r
                  /\ categories'[c].assigned = categories[c].assigned + r
                  /\ categories'[c].spent = categories[c].spent
                  /\ \A d \in CategoryIds \ {c} : categories'[d] = categories[d]
                  /\ \A e \in BudgetIds \ {b} : budgets'[e] = budgets[e]
                  /\ UNCHANGED <<accounts, transactions, nextId>>]_vars

\* C7 witness: a positive assign succeeded.
AssignSucceededSeen ==
  /\ result.op = "assign"
  /\ result.status = 200
  /\ \E b \in BudgetIds : budgets[b].availableToBudget < InitAvailable

\* C8: an assign of more than the budget month's availableToBudget, to a
\* category of the caller's month, fails with 'Insufficient available funds'
\* and leaves availableToBudget and every assigned unchanged.
OverAssignRejected ==
  [][result'.op = "assign" =>
      \A u \in Users, m \in Months, c \in CategoryIds, r \in AssignAmounts :
        LET b == categories[c].budgetMonthId
        IN ( /\ budgets[b].userId = u
             /\ budgets[b].month = m
             /\ r > budgets[b].availableToBudget
             /\ Assign(u, m, c, r) )
           => /\ result'.error = "Insufficient available funds"
              /\ result'.status # 200
              /\ UNCHANGED <<budgets, categories>>]_vars

\* C8 witness: after part of the pool was assigned, an assign was rejected for
\* insufficient funds (assign 1 of 2, then assign 2).
OverAssignSeen ==
  /\ result.op = "assign"
  /\ result.error = "Insufficient available funds"
  /\ \E c \in CategoryIds :
       LET b == categories[c].budgetMonthId
       IN /\ categories[c].assigned > 0
          /\ budgets[b].availableToBudget > 0

\* C9: every category's assigned is >= 0 and no step decreases it; an assign
\* with a negative amount is rejected and changes neither assigned nor
\* availableToBudget.
AssignedMonotone ==
  [][/\ \A c \in CategoryIds :
          /\ categories'[c].assigned >= 0
          /\ categories'[c].assigned >= categories[c].assigned
     /\ result'.op = "assign" =>
          \A u \in Users, m \in Months, c \in CategoryIds, r \in AssignAmounts :
            (r < 0 /\ Assign(u, m, c, r))
            => /\ result'.status \notin {200, 201}
               /\ UNCHANGED <<budgets, categories>>]_vars

\* C9 witness: a negative assign was answered with a validation failure after
\* money had been assigned.
NegativeAssignSeen ==
  /\ result.op = "assign"
  /\ result.error = "ZodError"
  /\ \E c \in CategoryIds : categories[c].assigned > 0

\* C10: removing a transaction that was already removed is answered 404 and
\* changes no balance, no spent and no row; a remove answered 200 deletes a
\* row that was there, and a removed id never comes back, so each created
\* transaction is credited back to its account at most once.
RemoveOnce ==
  [][/\ result'.op = "remove" =>
          \A u \in Users, t \in TxIds :
            Remove(u, t) =>
              /\ t \in Removed =>
                   /\ result'.status = 404
                   /\ UNCHANGED <<accounts, categories, transactions>>
              /\ result'.status = 200 =>
                   /\ t \in DOMAIN transactions
                   /\ t \notin DOMAIN transactions'
                   /\ accounts'[transactions[t].accountId].balance
                        = accounts[transactions[t].accountId].balance
                          + transactions[t].amount
     /\ \A t \in Removed : t \notin DOMAIN transactions']_vars

\* C10 witness: a transaction was created and removed, and the last remove was
\* answered 404 with every balance back at its opening value.
SecondRemoveSeen ==
  /\ result.op = "remove"
  /\ result.status = 404
  /\ Removed # {}
  /\ DOMAIN transactions = {}
  /\ \A a \in AccountIds : accounts[a].balance = OpeningBalance

\* ------------------------------------------------------ claims C11 .. C20
\* The rows of transactions'; t is changed by the step when its row differs
\* or is new or gone.
OnlyRowChanged(t) ==
  /\ DOMAIN transactions' = DOMAIN transactions
  /\ \A x \in DOMAIN transactions \ {t} : transactions'[x] = transactions[x]

\* C11: whenever create succeeds, a remove of the created transaction by the
\* owner of its account finds the row and puts every account balance and every
\* category's spent back to their values before the create, and leaves the
\* transaction table as it was before the create.
CreateThenRemoveRestores ==
  [][(result'.op = "create" /\ result'.status = 201) =>
       LET row == transactions'[nextId]
           owner == accounts'[row.accountId].userId
       IN /\ nextId \notin DOMAIN transactions
          /\ findTransaction(transactions', accounts', nextId, owner)
          /\ creditAccount(accounts', row) = accounts
          /\ creditCategory(categories', row) = categories
          /\ deleteTransaction(transactions', nextId) = transactions]_vars

\* C11 witness: after an assign, a create and a remove, no row is left, every
\* balance is the opening balance and nothing is spent.
RoundTripSeen ==
  /\ result.op = "remove"
  /\ result.status = 200
  /\ ops = 3
  /\ nextId = 2
  /\ DOMAIN transactions = {}
  /\ \E c \in CategoryIds : categories[c].assigned > 0
  /\ \A c \in CategoryIds : categories[c].spent = 0
  /\ \A a \in AccountIds : accounts[a].balance = OpeningBalance

\* C12: a create answered 201 that stored a row with amount s on account a and
\* category c (the only row the step adds or changes) takes
\* exactly s from a's balance, adds s to c's spent when s > 0 and c is a
\* category, and leaves every other account, every other category, every
\* assigned and every budget month unchanged.
CreateEffect ==
  [][(result'.op = "create" /\ result'.status = 201) =>
      LET row == transactions'[nextId]
          a == row.accountId
          c == row.categoryId
          s == row.amount
      IN /\ DOMAIN transactions' = DOMAIN transactions \cup {nextId}
         /\ \A t \in DOMAIN transactions : transactions'[t] = transactions[t]
         /\ accounts'[a].balance = accounts[a].balance - s
         /\ \A b \in AccountIds \ {a} : accounts'[b] = accounts[b]
         /\ \A d \in CategoryIds :
              /\ categories'[d].assigned = categories[d].assigned
              /\ categories'[d].spent =
                   IF d = c /\ s > 0 THEN categories[d].spent + s
                   ELSE categories[d].spent
         /\ UNCHANGED budgets]_vars

\* C12 witness: a categorized create of amount 2 on a category with 2 assigned
\* left balance OpeningBalance - 2 and spent 2.
CategorizedCreateSeen ==
  /\ result.op = "create"
  /\ result.status = 201
  /\ \E t \in DOMAIN transactions :
       LET row == transactions[t]
       IN /\ row.amount = 2
          /\ row.categoryId # None
          /\ categories[row.categoryId].spent = 2
          /\ accounts[row.accountId].balance = OpeningBalance - 2

\* C13: a patch answered 200 that keeps the row's account and category and
\* changes its amount from x to y changes that account's balance by x - y and
\* that category's spent by newSpend - oldSpend, and nothing else.
PatchAmountEffect ==
  [][(result'.op = "patch" /\ result'.status = 200) =>
      \A t \in DOMAIN transactions :
        LET old == transactions[t]
            new == transactions'[t]
            oldSpend == IF old.categoryId # None /\ old.amount > 0 THEN old.amount ELSE 0
            newSpend == IF new.categoryId # None /\ new.amount > 0 THEN new.amount ELSE 0
        IN ( /\ OnlyRowChanged(t)
             /\ new.amount # old.amount
             /\ new.accountId = old.accountId
             /\ new.categoryId = old.categoryId )
           => /\ accounts'[old.accountId].balance
                   = accounts[old.accountId].balance + (old.amount - new.amount)
              /\ \A b \in AccountIds \ {old.accountId} : accounts'[b] = accounts[b]
              /\ \A d \in CategoryIds :
                   /\ categories'[d].assigned = categories[d].assigned
                   /\ categories'[d].spent =
                        IF d = old.categoryId
                          THEN categories[d].spent + (newSpend - oldSpend)
                          ELSE categories[d].spent]_vars

\* C13 witness: after assign 2, create 1 and a patch of the amount to 2, the
\* balance is OpeningBalance - 2 and spent is 2.
PatchedAmountSeen ==
  /\ result.op = "patch"
  /\ result.status = 200
  /\ ops = 3
  /\ \E t \in DOMAIN transactions :
       LET row == transactions[t]
       IN /\ row.amount = 2
          /\ row.categoryId # None
          /\ categories[row.categoryId].spent = 2
          /\ categories[row.categoryId].assigned = 2
          /\ accounts[row.accountId].balance = OpeningBalance - 2

\* C14: a patch answered 200 that moves a row from account A to another
\* account B adds the full prior amount to A's balance, takes the full next
\* amount from B's balance, leaves every other balance unchanged, and B is an
\* account of the owner of A.
PatchAccountSwapEffect ==
  [][(result'.op = "patch" /\ result'.status = 200) =>
      \A t \in DOMAIN transactions :
        LET old == transactions[t]
            new == transactions'[t]
        IN (OnlyRowChanged(t) /\ new.accountId # old.accountId)
           => /\ accounts'[old.accountId].balance
                   = accounts[old.accountId].balance + old.amount
              /\ accounts'[new.accountId].balance
                   = accounts[new.accountId].balance - new.amount
              /\ \A b \in AccountIds \ {old.accountId, new.accountId} :
                   accounts'[b] = accounts[b]
              /\ accounts[new.accountId].userId = accounts[old.accountId].userId]_vars

\* C14 witness: a row created on one account sits on another account of the
\* same user after a patch that also changed its amount; the first account is
\* back at its opening balance and the second is debited.
AccountSwapSeen ==
  /\ result.op = "patch"
  /\ result.status = 200
  /\ nextId = 2
  /\ ops = 2
  /\ \E t \in DOMAIN transactions, a \in AccountIds :
       /\ a # transactions[t].accountId
       /\ accounts[a].userId = accounts[transactions[t].accountId].userId
       /\ accounts[a].balance = OpeningBalance
       /\ transactions[t].amount = 2
       /\ accounts[transactions[t].accountId].balance = OpeningBalance - 2

\* C18: every active transaction references an account and, when it has a
\* category, a category in a budget month of the user who owns that account.
NoCrossUserReference ==
  \A t \in DOMAIN transactions :
    LET row == transactions[t]
    IN row.categoryId # None =>
         budgets[categories[row.categoryId].budgetMonthId].userId
           = accounts[row.accountId].userId

\* C19: every assign is answered with a classified outcome: 200 Success,
\* 400 InvalidInput, 404 NotFound or 422 for a request over the pool; none is
\* answered 500 'Internal server error'.
AssignOutcomeClassified ==
  result.op = "assign" => result.status \in {200, 400, 404, 422}

\* C20: for every active transaction, the user who can patch it (the owner of
\* its account) and every merged next version, the balances and spent totals a patch writes are those of removing
\* the prior version and then creating the next one, and the availability
\* check of the patch passes exactly when the check of that create would pass
\* after the remove.
PatchIsRemoveThenCreate ==
  \A t \in DOMAIN transactions,
     a \in AccountIds, c \in CategoryInputs, y \in Amounts :
    LET existing == transactions[t]
        u == accounts[existing.accountId].userId
        next == [accountId |-> a, categoryId |-> c, amount |-> y]
        previousSpend == spendingAmount(existing.categoryId, existing.amount)
        nextSpend == spendingAmount(next.categoryId, next.amount)
        removed == creditCategory(categories, existing)
    IN /\ reconcileAccounts(accounts, existing, next)
            = debitAccount(creditAccount(accounts, existing), next)
       /\ reconcileCategories(categories, existing, next, previousSpend, nextSpend)
            = debitCategory(removed, next)
       /\ patchAvailability(categories, u, existing, next)
            = ensureCategoryAvailability(removed, u, next.categoryId, nextSpend, 0)

\* C20 witness: after an assign and a categorized spending create, a patch
\* answered 200 left the transaction as spending of another amount in its
\* category, within what is assigned.
PatchedSpendingSeen ==
  /\ result.op = "patch"
  /\ result.status = 200
  /\ ops = 3
  /\ \E t \in DOMAIN transactions :
       LET row == transactions[t]
       IN /\ row.categoryId # None
          /\ row.amount = 1
          /\ categories[row.categoryId].spent = 1
          /\ categories[row.categoryId].assigned = 1
          /\ accounts[row.accountId].balance = OpeningBalance - 1

\* ------------------------------------------- claims C15 .. C17 (SpecApi)
\* C15: in the flow create account, create a category for a month, assign to
\* that category in that month an amount r > 0 that the account's balance
\* covers, the assign is answered 200.
FlowAssignAccepted ==
  [][result'.op = "assign" =>
      \A u \in Users, m \in Months, c \in CategoryIds, r \in AssignAmounts :
        ( /\ Assign(u, m, c, r)
          /\ r > 0
          /\ ops = 2
          /\ \E a \in DOMAIN accounts :
               accounts[a].userId = u /\ accounts[a].balance >= r
          /\ c \in DOMAIN categories
          /\ categories[c].budgetMonthId \in findBudget(u, m) )
        => result'.status = 200]_vars

\* C16 as stated: an assign for a (user, month) with no budget month row
\* creates the row and does not fail because the row is missing.
AssignCreatesMissingPeriod ==
  [][result'.op = "assign" =>
      \A u \in Users, m \in Months, c \in CategoryIds, r \in AssignAmounts :
        (Assign(u, m, c, r) /\ assignSchema(r) /\ findBudget(u, m) = {})
        => /\ findBudget(u, m)' # {}
           /\ result'.error # "Budget month not found"]_vars

\* C16 amended: a budget month row is created only by a category create, and
\* only by the first one for its (user, month): a category create leaves
\* exactly one row for its month, keeps every existing row and puts the new
\* category in a row of the budgets table; every other operation leaves
\* the budget month ids unchanged, and an assign for a (user, month) with no
\* row is answered 404 'Budget month not found' and creates no row.
PeriodCreatedOnlyByCategoryCreate ==
  [][ /\ DOMAIN budgets' # DOMAIN budgets => result'.op = "categoryCreate"
      /\ result'.op = "categoryCreate" =>
           /\ result'.status = 201
           /\ \A u \in Users, m \in Months :
                /\ Cardinality(findBudget(u, m)') <= 1
                /\ findBudget(u, m) # {} => findBudget(u, m)' = findBudget(u, m)
           /\ \A b \in DOMAIN budgets : budgets'[b] = budgets[b]
           /\ Cardinality(DOMAIN budgets') <= Cardinality(DOMAIN budgets) + 1
           /\ \E c \in DOMAIN categories' \ DOMAIN categories :
                /\ categories'[c].budgetMonthId \in DOMAIN budgets'
                /\ budgets'[categories'[c].budgetMonthId].availableToBudget
                     = IF categories'[c].budgetMonthId \in DOMAIN budgets
                         THEN budgets[categories'[c].budgetMonthId].availableToBudget
                         ELSE DefaultAvailableToBudget
      /\ result'.op = "assign" =>
           \A u \in Users, m \in Months, c \in CategoryIds, r \in AssignAmounts :
             (Assign(u, m, c, r) /\ assignSchema(r) /\ findBudget(u, m) = {})
             => /\ result'.status = 404
                /\ result'.error = "Budget month not found"
                /\ findBudget(u, m)' = {}
                /\ UNCHANGED <<budgets, categories>> ]_vars

\* C16 witness: a category create made a budget month row, a second category
\* create for the same month reused it, and an assign for a month without a
\* row was then answered 404 'Budget month not found'.
MissingPeriodAssignSeen ==
  /\ result.op = "assign"
  /\ result.status = 404
  /\ result.error = "Budget month not found"
  /\ Cardinality(DOMAIN budgets) = 1
  /\ Cardinality(DOMAIN categories) = 2

\* C17 as stated: account patch, category create, assign and the lists leave
\* every account's balance unchanged.
BalanceOnlyByTransactions ==
  [][result'.op \notin {"create", "patch", "remove"} =>
      \A a \in DOMAIN accounts : accounts'[a].balance = accounts[a].balance]_vars

\* C17 amended: an account's balance changes only in a transaction create,
\* patch or remove whose added, changed or removed row references that account
\* before or after the step, or in an account patch answered 200; account
\* create, category create, assign and the lists leave every balance unchanged.
BalanceOnlyByTransactionsOrAccountPatch ==
  [][\A a \in DOMAIN accounts :
       accounts'[a].balance # accounts[a].balance =>
         \/ result'.op = "accountPatch" /\ result'.status = 200
         \/ /\ result'.op \in {"create", "patch", "remove"}
            /\ \E t \in DOMAIN transactions \cup DOMAIN transactions' :
                 \/ /\ t \notin DOMAIN transactions
                    /\ transactions'[t].accountId = a
                 \/ /\ t \notin DOMAIN transactions'
                    /\ transactions[t].accountId = a
                 \/ /\ t \in DOMAIN transactions \cap DOMAIN transactions'
                    /\ transactions'[t] # transactions[t]
                    /\ a \in {transactions[t].accountId, transactions'[t].accountId}]_vars

\* C17 witness: while no transaction has ever been created, an account patch
\* answered 200 left an account with a balance that only an account patch
\* writes.
AccountPatchedBalanceSeen ==
  /\ result.op = "accountPatch"
  /\ result.status = 200
  /\ nextId = 1
  /\ \E a \in DOMAIN accounts : accounts[a].balance = OpeningBalance + 1

\* ------------------------------------------------------ claims C21 .. C30
\* The messages ensureCategoryAvailability throws.
AvailabilityMessages == {"Category not found", "Spending exceeds available category funds"}

\* C21: a patch of a transaction by the owner of its account that keeps the
\* category passes the availability check if and only if
\* newSpend <= assigned - (spent - oldSpend) for that category (always, with
\* no category), and a patch the check rejects leaves the transaction rows,
\* the account balances and the categories unchanged.
PatchSameCategoryCredited ==
  [][result'.op = "patch" =>
      \A u \in Users, t \in DOMAIN transactions, keys \in SUBSET PatchKeys :
        \A a \in (IF "accountId" \in keys THEN AccountInputs ELSE {NoAccount}),
           c \in (IF "categoryId" \in keys THEN CategoryInputs ELSE {None}),
           amt \in (IF "amount" \in keys THEN Amounts ELSE {1}) :
          LET existing == transactions[t]
              next == mergeNext(existing, keys, a, c, amt)
              oldSpend == IF existing.categoryId # None /\ existing.amount > 0
                            THEN existing.amount ELSE 0
              newSpend == IF next.categoryId # None /\ next.amount > 0
                            THEN next.amount ELSE 0
              covered == \/ next.categoryId = None
                         \/ newSpend <= categories[next.categoryId].assigned
                               - (categories[next.categoryId].spent - oldSpend)
              rejected == result'.error \in AvailabilityMessages
          IN ( /\ findTransaction(transactions, accounts, t, u)
               /\ next.categoryId = existing.categoryId
               /\ Patch(u, t, keys, a, c, amt) )
             => /\ rejected <=> ~covered
                /\ rejected => UNCHANGED <<transactions, accounts, categories>>]_vars

\* InitFunded, but for ops and result, is a state of Spec: this holds in no
\* state of Spec only if that state is never reached.
FundedStateSeen ==
  /\ transactions = [t \in {} |-> 0]
  /\ nextId = 1
  /\ \A c \in CategoryIds :
       categories[c] = [budgetMonthId |-> CategoryBudget[c],
                        assigned |-> IF CategoryBudget[c] = "b1" THEN FundedAssigned ELSE 0,
                        spent |-> 0]
  /\ budgets["b1"].availableToBudget = InitAvailable - 2 * FundedAssigned
  /\ budgets["b2"].availableToBudget = InitAvailable
  /\ \A a \in AccountIds : accounts[a].balance = OpeningBalance

\* C22: a patch answered 200 that moves a row from category C1 to another
\* category C2 or to no category passed a check of its new spend against C2's
\* own assigned - spent, takes oldSpend from C1's spent, adds newSpend to C2's
\* spent and leaves every other category and every assigned unchanged; and in
\* every state the availability check of a patch that moves a row to no
\* category passes.
PatchCategoryMoveEffect ==
  [][ /\ \A t \in DOMAIN transactions, u \in Users, y \in Amounts :
           patchAvailability(categories, u, transactions[t],
             [accountId |-> transactions[t].accountId, categoryId |-> None,
              amount |-> y]) = ""
      /\ (result'.op = "patch" /\ result'.status = 200) =>
           \A t \in DOMAIN transactions :
             LET old == transactions[t]
                 new == transactions'[t]
                 oldSpend == IF old.categoryId # None /\ old.amount > 0 THEN old.amount ELSE 0
                 newSpend == IF new.categoryId # None /\ new.amount > 0 THEN new.amount ELSE 0
             IN (OnlyRowChanged(t) /\ new.categoryId # old.categoryId)
                => /\ newSpend > 0 =>
                        newSpend <= categories[new.categoryId].assigned
                                      - categories[new.categoryId].spent
                   /\ \A d \in CategoryIds :
                        /\ categories'[d].assigned = categories[d].assigned
                        /\ categories'[d].spent =
                             IF d = old.categoryId THEN categories[d].spent - oldSpend
                             ELSE IF d = new.categoryId THEN categories[d].spent + newSpend
                             ELSE categories[d].spent ]_vars

\* C22 witness: a spending row created in one category sits in another
\* category after a patch answered 200; the first category has nothing spent
\* and the second holds the row's amount.
CategoryMoveSeen ==
  /\ result.op = "patch"
  /\ result.status = 200
  /\ ops = 2
  /\ \E t \in DOMAIN transactions, d \in CategoryIds :
       LET row == transactions[t]
       IN /\ row.categoryId \in CategoryIds \ {d}
          /\ row.amount = FundedAssigned
          /\ categories[row.categoryId].spent = FundedAssigned
          /\ categories[d].assigned = FundedAssigned
          /\ categories[d].spent = 0
          /\ budgets[categories[d].budgetMonthId].userId = accounts[row.accountId].userId

\* C24: a create of a transaction with no category or with an amount <= 0 is
\* never answered 422 and, like a remove of such a transaction, leaves every
\* category row unchanged.
NonSpendingLeavesCategories ==
  [][ /\ result'.op = "create" =>
           \A u \in Users, a \in AccountInputs, c \in CategoryInputs, amt \in Amounts :
             ((c = None \/ amt <= 0) /\ Create(u, a, c, amt))
             => /\ result'.status # 422
                /\ categories' = categories
      /\ (result'.op = "remove" /\ result'.status = 200) =>
           \A t \in DOMAIN transactions \ DOMAIN transactions' :
             (transactions[t].categoryId = None \/ transactions[t].amount <= 0)
             => categories' = categories ]_vars

\* C24 witness: a create of an inflow into a category whose assigned money is
\* all spent was answered 201 and the category's spent is as before.
InflowIntoSpentCategorySeen ==
  /\ result.op = "create"
  /\ result.status = 201
  /\ nextId = 3
  /\ \E t \in DOMAIN transactions :
       LET row == transactions[t]
       IN /\ t = 2
          /\ row.amount < 0
          /\ row.categoryId # None
          /\ categories[row.categoryId].assigned > 0
          /\ categories[row.categoryId].spent = categories[row.categoryId].assigned

\* C25: a create whose account is absent or not the caller's is answered 404
\* 'Account not found', whatever the availability check would say of its
\* category and amount, and adds no row and changes no account or category.
CreateAccountNotFoundFirst ==
  [][result'.op = "create" =>
      \A u \in Users, a \in AccountInputs, c \in CategoryInputs, amt \in Amounts :
        (~findAccount(accounts, a, u) /\ Create(u, a, c, amt))
        => /\ result'.status = 404
           /\ result'.error = "Account not found"
           /\ UNCHANGED <<transactions, nextId, accounts, categories, budgets>>]_vars

\* C25 witness: a create was answered 404 'Account not found' while an account
\* of one user and a category of the other exist, the category with nothing
\* assigned, so that a spend in it by its owner from the other's account is
\* both not found and over what is available.
AccountNotFoundSeen ==
  /\ result.op = "create"
  /\ result.status = 404
  /\ result.error = "Account not found"
  /\ DOMAIN transactions = {}
  /\ \E a \in DOMAIN accounts, c \in DOMAIN categories :
       /\ budgets[categories[c].budgetMonthId].userId # accounts[a].userId
       /\ categories[c].assigned = 0
       /\ \A b \in DOMAIN accounts : b = a

\* ------------------------------------------- interleaved requests (SpecRace)
\* C23: a patch that sets no account, category or amount, of a transaction
\* that is stored as the patch read it while no other request is in flight,
\* is answered 200 and leaves every account and every category unchanged.
UnchangedPatchAccepted ==
  [][\A p \in Procs :
       ( /\ calls[p].op = "patch"
         /\ calls'[p].pc = "idle"
         /\ calls[p].next = calls[p].existing
         /\ \A q \in Procs \ {p} : calls[q].pc = "idle"
         /\ calls[p].id \in DOMAIN transactions
         /\ transactions[calls[p].id] = calls[p].existing )
       => /\ result'.status = 200
          /\ accounts' = accounts
          /\ categories' = categories]_vars

\* C26: whatever the interleaving of assigns, in every committed state what a
\* budget month has available plus what is assigned to its categories is what
\* the month started with: the pool went down by every accepted amount.
NoLostPoolUpdate ==
  \A b \in BudgetIds :
    budgets[b].availableToBudget + SumAssigned(categories, CategoriesOf(b)) = InitAvailable

\* C27: whatever the interleaving of creates and patches, no category's spent
\* exceeds its assigned.
NoOverspendInterleaved ==
  \A c \in CategoryIds : categories[c].spent <= categories[c].assigned

\* C28: no state has two patches that each have written their transaction's
\* old account and each wait, before the write of their new account, for the
\* lock the other holds on it.
NoOpposingSwapWait ==
  ~(\A q \in Procs :
      /\ calls[q].op = "patch"
      /\ calls[q].pc = "patchDebitNew"
      /\ calls[q].existing.accountId \in DOMAIN calls[q].bal
      /\ Blocked(q))

\* C29: whatever the interleaving of creates and removes, in every committed
\* state every account's balance is its opening balance less the amounts of the
\* stored transactions on it, that is less the created amounts plus the removed
\* ones, and every category's spent is the spend of the stored transactions in
\* it.
LedgerBalanceInterleaved ==
  /\ \A a \in AccountIds :
       accounts[a].balance = OpeningBalance - SumRowAmounts(transactions, OnAccount(a))
  /\ \A c \in CategoryIds :
       categories[c].spent = SumSpend(transactions, OnCategory(c))

\* C29 witness: a create stands before its balance decrement and waits for a
\* remove that has written the same account's balance and not yet committed.
CreateWaitsForRemoveSeen ==
  \E p, q \in Procs :
    /\ calls[p].pc = "createDebit"
    /\ calls[q].op = "remove"
    /\ calls[p].next.accountId \in DOMAIN calls[q].bal
    /\ Blocked(p)

\* C30: availableToBudget is never negative, in the table or in the pending
\* write of a request in flight.
PoolNeverNegative ==
  /\ \A b \in DOMAIN budgets : budgets[b].availableToBudget >= 0
  /\ \A p \in Procs : \A b \in DOMAIN calls[p].avail : calls[p].avail[b] >= 0

\* C30 witness: two interleaved assigns that both read the pool before either
\* wrote it have both been answered 200, so that more than the month started
\* with is assigned.
RacedAssignsSeen ==
  /\ result.op = "assign"
  /\ result.status = 200
  /\ \A p \in Procs : calls[p].pc = "idle"
  /\ budgets["b1"].availableToBudget + categories["c1"].assigned > InitAvailable

\* C31: from one committed state to the next no budget month's
\* availableToBudget goes up, it changes only when an assign is answered, a
\* transaction create, patch or remove answered leaves it as it was, and while
\* a budget month has availableToBudget 0 the assigned of none of its
\* categories goes up.
PoolOnlyLoweredByAssign ==
  [][ /\ \A b \in DOMAIN budgets :
           budgets'[b].availableToBudget <= budgets[b].availableToBudget
      /\ (\E b \in DOMAIN budgets : budgets'[b] # budgets[b]) => result'.op = "assign"
      /\ result'.op \in {"create", "patch", "remove", "categoryCreate"} =>
           \A b \in DOMAIN budgets : budgets'[b] = budgets[b]
      /\ \A c \in DOMAIN categories :
           budgets[categories[c].budgetMonthId].availableToBudget = 0
           => categories'[c].assigned <= categories[c].assigned ]_vars

====
